---- MODULE Spec2Model ----
(***************************************************************************)
(* A model of embedding_sidecar.py: two lazily constructed, process-wide   *)
(* model handles (_embed_model, _llm_model), their accessors, and the      *)
(* three endpoints /embed, /query and /health.  The endpoint functions are *)
(* plain `def`s, so the framework runs each request on a worker thread:    *)
(* requests interleave at the points where a thread may be descheduled     *)
(* (the `is None` test, the construction, the re-read of the global on     *)
(* return, the inference call).                                            *)
(*                                                                         *)
(* The two ML models and the tokenizer are external.  They are modelled as *)
(* nondeterministic black boxes: a construction succeeds or raises; an     *)
(* inference call raises or returns; generate returns the prompt ids       *)
(* followed by any sequence of at most max_new_tokens vocabulary tokens.   *)
(***************************************************************************)
EXTENDS Integers, Sequences, FiniteSets, TLC

\* ---------------------------------------------------------------- bounds
NumReqs == 3        \* requests in one run of the server
ServerGenCap == 1   \* tokens the generator may emit in the concurrent model
MaxNew == 3         \* tokens the generator may emit in the /query model
MaxText == 1        \* length of the system and user prompts

\* -------------------------------------------------------------- constants
None == 0                   \* Python's None in a cache slot / local
DefaultMaxTokens == 256     \* QueryRequest.max_tokens default

Reqs == 1..NumReqs

VARIABLES
    embed_model,    \* the global _embed_model: None or a handle
    llm_model,      \* the global _llm_model: None or a handle
    embedStores,    \* handles assigned to _embed_model, in order
    llmStores,      \* handles assigned to _llm_model, in order
    req             \* per request: the body, the thread's position and locals

vars == <<embed_model, llm_model, embedStores, llmStores, req>>

\* ------------------------------------------------------------- text, tokens
\* Text is a sequence of characters.  "<" abbreviates the text of a chat
\* template turn marker.  The tokenizer maps marker text to a special token;
\* the byte-level vocabulary also holds ordinary tokens ("lt") that spell the
\* same text, and the two special tokens.
PromptChars == {"a", " "}
ServerVocab == {"a"}
Vocab == {"a", "sp", "lt", "BOT", "EOS"}
SpecialTokens == {"BOT", "EOS"}

BoundedSeqs(S, n) == UNION {[1..k -> S] : k \in 0..n}

Min(a, b) == IF a < b THEN a ELSE b

\* tokenizer.apply_chat_template(messages, tokenize=False,
\* add_generation_prompt=True): the system turn, then the user turn, then the
\* opening of the assistant turn.
ChatTemplate(system, user) == <<"<">> \o system \o <<"<">> \o user \o <<"<">>

TokenOf(c) == CASE c = "a" -> "a" [] c = " " -> "sp" [] c = "<" -> "BOT"

\* tokenizer([text]).input_ids[0]
Tokenize(text) == [i \in 1..Len(text) |-> TokenOf(text[i])]

CharOf(t) == CASE t = "a" -> "a" [] t = "sp" -> " " [] t = "lt" -> "<"

\* tokenizer.batch_decode(ids, skip_special_tokens=True)[0]
RECURSIVE Decode(_)
Decode(ids) ==
    IF ids = <<>> THEN <<>>
    ELSE IF Head(ids) \in SpecialTokens THEN Decode(Tail(ids))
    ELSE <<CharOf(Head(ids))>> \o Decode(Tail(ids))

RECURSIVE LStrip(_)
LStrip(s) == IF s # <<>> /\ Head(s) = " " THEN LStrip(Tail(s)) ELSE s

RECURSIVE RStrip(_)
RStrip(s) ==
    IF s # <<>> /\ s[Len(s)] = " " THEN RStrip(SubSeq(s, 1, Len(s) - 1)) ELSE s

\* str.strip()
Strip(s) == RStrip(LStrip(s))

\* Faulty variant of StripEcho: the echoed prompt is kept.
StripEchoKeepsPrompt(input_ids, output_ids) == output_ids

\* output_ids[len(input_ids):]
StripEcho(input_ids, output_ids) ==
    SubSeq(output_ids, Len(input_ids) + 1, Len(output_ids))

\* model.encode([text])[0].tolist(): a vector of the model's fixed dimension
Encode(text) == <<Len(text)>>

\* ------------------------------------------------------------------ schemas
\* Faulty variant of ValidEmbed: the field is optional.
ValidEmbedOptionalText(has) == TRUE

\* EmbedRequest: text is required
ValidEmbed(has) == "text" \in has

\* QueryRequest: system and user are required, max_tokens is not
ValidQuery(has) == {"system", "user"} \subseteq has

\* QueryRequest.max_tokens after validation
ParsedMaxTokens(has, given) ==
    IF "max_tokens" \in has THEN given ELSE DefaultMaxTokens

\* Faulty variant of MaxNewTokens: a budget of at least one token.
MaxNewTokensAtLeastOne(max_tokens) == IF max_tokens < 1 THEN 1 ELSE max_tokens

\* max_new_tokens=req.max_tokens
MaxNewTokens(max_tokens) == max_tokens

\* Faulty variant of HealthPayload: the status reports the load state.
HealthPayloadByLoadState ==
    IF embed_model = None \/ llm_model = None THEN "loading" ELSE "ok"

\* {"status": "ok"}
HealthPayload == "ok"

\* ------------------------------------------------------------------- state
IdleReq ==
    [kind |-> "none", has |-> {}, text |-> <<>>, system |-> <<>>,
     user |-> <<>>, given |-> 0, max_tokens |-> 0,
     pc |-> "idle", outcome |-> "none", err |-> "none",
     model |-> None, built |-> None, slotAtRaise |-> None,
     input_ids |-> <<>>, generated_ids |-> <<>>, sampled |-> <<>>,
     budget |-> 0, answer |-> <<>>, embedding |-> <<>>, status |-> "none"]

Init ==
    /\ embed_model = None
    /\ llm_model = None
    /\ embedStores = <<>>
    /\ llmStores = <<>>
    /\ req = [r \in Reqs |-> IdleReq]

\* Requests are numbered in the order they arrive.
Arrives(r) ==
    /\ req[r].pc = "idle"
    /\ \A q \in Reqs : q < r => req[q].pc # "idle"

Slot(kind) == IF kind = "embed" THEN embed_model ELSE llm_model

Stores(kind) == IF kind = "embed" THEN embedStores ELSE llmStores

\* Faulty variant of StoreHandle: an assignment that keeps a handle already there.
StoreIfEmpty(old, new) == IF old = None THEN new ELSE old

\* _embed_model = ... / _llm_model = ...: the assignment to the global
StoreHandle(old, new) == new

SetSlot(kind, h) ==
    /\ embed_model' = IF kind = "embed" THEN StoreHandle(embed_model, h)
                      ELSE embed_model
    /\ llm_model' = IF kind = "query" THEN StoreHandle(llm_model, h)
                    ELSE llm_model
    /\ embedStores' = IF kind = "embed" THEN Append(embedStores, h)
                      ELSE embedStores
    /\ llmStores' = IF kind = "query" THEN Append(llmStores, h)
                    ELSE llmStores

SlotsUnchanged == UNCHANGED <<embed_model, llm_model, embedStores, llmStores>>

\* ----------------------------------------------------------------- actions
\* POST /embed: the framework validates the body against EmbedRequest and
\* answers 422 itself when it does not fit; otherwise embed() starts.
PostEmbed(r, has, text) ==
    /\ Arrives(r)
    /\ req' = [req EXCEPT ![r] =
         IF ValidEmbed(has)
         THEN [@ EXCEPT !.kind = "embed", !.has = has, !.text = text,
                        !.pc = "test"]
         ELSE [@ EXCEPT !.kind = "embed", !.has = has, !.text = text,
                        !.pc = "done", !.outcome = "client_error"]]
    /\ SlotsUnchanged

\* POST /query: validation against QueryRequest, then query() starts.
PostQuery(r, has, system, user, given) ==
    /\ Arrives(r)
    /\ req' = [req EXCEPT ![r] =
         IF ValidQuery(has)
         THEN [@ EXCEPT !.kind = "query", !.has = has, !.system = system,
                        !.user = user, !.given = given,
                        !.max_tokens = ParsedMaxTokens(has, given),
                        !.pc = "test"]
         ELSE [@ EXCEPT !.kind = "query", !.has = has, !.system = system,
                        !.user = user, !.given = given,
                        !.pc = "done", !.outcome = "client_error"]]
    /\ SlotsUnchanged

\* Faulty variant of Health: the health check warms the embedding model up.
HealthWarmsUp(r) ==
    /\ Arrives(r)
    /\ req' = [req EXCEPT ![r] =
         [@ EXCEPT !.kind = "health", !.pc = "done", !.outcome = "ok",
                   !.status = HealthPayload]]
    /\ IF embed_model = None
       THEN SetSlot("embed", Len(embedStores) + 1)
       ELSE SlotsUnchanged

\* GET /health
Health(r) ==
    /\ Arrives(r)
    /\ req' = [req EXCEPT ![r] =
         [@ EXCEPT !.kind = "health", !.pc = "done", !.outcome = "ok",
                   !.status = HealthPayload]]
    /\ SlotsUnchanged

\* get_embed_model / get_llm_model: `if _x_model is None:`
TestSlot(r) ==
    /\ req[r].pc = "test"
    /\ req' = [req EXCEPT ![r].pc =
         IF Slot(req[r].kind) = None THEN "construct" ELSE "return"]
    /\ SlotsUnchanged

\* The construction returns and its result is assigned to the global.  Each
\* construction makes a new object: handles are numbered as they are made.
ConstructOk(r) ==
    /\ req[r].pc = "construct"
    /\ LET h == Len(Stores(req[r].kind)) + 1
       IN /\ SetSlot(req[r].kind, h)
          /\ req' = [req EXCEPT ![r].pc = "return", ![r].built = h]

\* Faulty variant of ConstructRaises: the handler swallows the exception.
ConstructRaisesSwallowed(r) ==
    /\ req[r].pc = "construct"
    /\ req' = [req EXCEPT ![r].pc = "return", ![r].err = "load",
                          ![r].slotAtRaise = Slot(req[r].kind)]
    /\ SlotsUnchanged

\* Faulty variant of ConstructRaises: the handler resets the slot before re-raising.
ConstructRaisesClears(r) ==
    /\ req[r].pc = "construct"
    /\ req' = [req EXCEPT ![r].pc = "done", ![r].err = "load",
                          ![r].outcome = "server_error",
                          ![r].slotAtRaise = None]
    /\ embed_model' = IF req[r].kind = "embed" THEN None ELSE embed_model
    /\ llm_model' = IF req[r].kind = "query" THEN None ELSE llm_model
    /\ UNCHANGED <<embedStores, llmStores>>

\* The import or the construction raises: the error is printed and re-raised,
\* through the endpoint function, to the framework, which answers 500.
ConstructRaises(r) ==
    /\ req[r].pc = "construct"
    /\ req' = [req EXCEPT ![r].pc = "done", ![r].err = "load",
                          ![r].outcome = "server_error",
                          ![r].slotAtRaise = Slot(req[r].kind)]
    /\ SlotsUnchanged

\* `return _x_model`: the global is read again and bound to the caller's local.
ReturnHandle(r) ==
    /\ req[r].pc = "return"
    /\ req' = [req EXCEPT ![r].pc = "infer", ![r].model = Slot(req[r].kind)]
    /\ SlotsUnchanged

\* embed(): model.encode([req.text])[0].tolist() and the response.
EmbedReturns(r) ==
    /\ req[r].pc = "infer"
    /\ req[r].kind = "embed"
    /\ req[r].model # None
    /\ req' = [req EXCEPT ![r].pc = "done", ![r].outcome = "ok",
                          ![r].embedding = Encode(req[r].text)]
    /\ SlotsUnchanged

\* query(): the prompt is rendered and tokenized, generate returns the prompt
\* ids followed by `new`, the echo is cut, the rest decoded and stripped.
QueryReturns(r, vocab, cap) ==
    /\ req[r].pc = "infer"
    /\ req[r].kind = "query"
    /\ req[r].model # None
    /\ LET input_ids == Tokenize(ChatTemplate(req[r].system, req[r].user))
           budget == MaxNewTokens(req[r].max_tokens)
       IN /\ budget >= 0
          /\ \E new \in BoundedSeqs(vocab, Min(budget, cap)) :
               LET generated_ids == input_ids \o new
               IN req' = [req EXCEPT ![r] =
                    [@ EXCEPT !.pc = "done", !.outcome = "ok",
                              !.input_ids = input_ids,
                              !.budget = budget,
                              !.sampled = new,
                              !.generated_ids = generated_ids,
                              !.answer = Strip(Decode(
                                  StripEcho(input_ids, generated_ids)))]]
    /\ SlotsUnchanged

\* The inference call raises (an attribute of None, an input or an argument the
\* library rejects): nothing catches it and the framework answers 500.
InferRaises(r) ==
    /\ req[r].pc = "infer"
    /\ req' = [req EXCEPT ![r].pc = "done", ![r].err = "infer",
                          ![r].outcome = "server_error"]
    /\ SlotsUnchanged

\* ----------------------------------------------------- the concurrent server
ServerEmbedHas == {{}, {"text"}}

ServerQueryHas == {{"system"}, {"system", "user"}}

Next ==
    \E r \in Reqs :
        \/ \E has \in ServerEmbedHas : PostEmbed(r, has, <<"a">>)
        \/ \E has \in ServerQueryHas : PostQuery(r, has, <<"a">>, <<"a">>, 0)
        \/ Health(r)
        \/ TestSlot(r)
        \/ ConstructOk(r)
        \/ ConstructRaises(r)
        \/ ReturnHandle(r)
        \/ EmbedReturns(r)
        \/ QueryReturns(r, ServerVocab, ServerGenCap)
        \/ InferRaises(r)

Spec == Init /\ [][Next]_vars

\* --------------------------------------------- one /query request, all inputs
Texts == BoundedSeqs(PromptChars, MaxText)

QueryHas == {{"system", "user"}, {"system", "user", "max_tokens"}}

Budgets == -1..MaxNew

NextQuery ==
    \/ \E has \in QueryHas, system \in Texts, user \in Texts, given \in Budgets :
          /\ "max_tokens" \notin has => given = 0
          /\ PostQuery(1, has, system, user, given)
    \/ TestSlot(1)
    \/ ConstructOk(1)
    \/ ConstructRaises(1)
    \/ ReturnHandle(1)
    \/ QueryReturns(1, Vocab, MaxNew)
    \/ InferRaises(1)

SpecQuery == Init /\ [][NextQuery]_vars

\* ======================================================================
\* Properties
\* ======================================================================
Contains(s, sub) ==
    \E i \in 0..(Len(s) - Len(sub)) : SubSeq(s, i + 1, i + Len(sub)) = sub

Last(s) == s[Len(s)]

Served(r, kind) == req[r].kind = kind /\ req[r].outcome = "ok"

\* C1 (as stated): when a construction raises in a request, the slot of that
\* model is empty as the request ends, and a request that then calls the
\* accessor with the slot empty goes on to construct.
C1_FailedLoadLeavesSlotEmpty ==
    [][\A r \in Reqs :
         /\ (req[r].pc = "construct" /\ req'[r].err = "load")
              => IF req[r].kind = "embed" THEN embed_model' = None
                 ELSE llm_model' = None
         /\ (req[r].pc = "test" /\ req'[r].pc # "test"
               /\ Slot(req[r].kind) = None)
              => req'[r].pc = "construct"]_vars

\* C2 (as stated): each model is constructed successfully at most once, and
\* every accessor call that returns hands out that one handle.
C2_ConstructedExactlyOnce ==
    /\ Len(embedStores) <= 1
    /\ Len(llmStores) <= 1
    /\ \A r \in Reqs :
         req[r].model # None => req[r].model = Stores(req[r].kind)[1]

\* C3: every /health request is answered with status "ok", whatever the two
\* slots hold and whatever the other requests are doing.
C3_HealthAlwaysOk ==
    \A r \in Reqs :
        req[r].kind = "health"
          => /\ req[r].pc = "done"
             /\ req[r].outcome = "ok"
             /\ req[r].status = "ok"

\* C3 witness: a health check answered "ok" with one slot empty, one load
\* failed and one load in progress.
C3_Witness ==
    \E r, q, p \in Reqs :
        /\ Served(r, "health") /\ req[r].status = "ok"
        /\ req[q].err = "load"
        /\ req[p].pc = "construct"
        /\ llm_model = None

\* C4: a request whose model construction raised has ended with a server
\* error; it never got a handle, and it holds no embedding, no generated
\* tokens and no answer.
C4_FailedLoadIsServerError ==
    \A r \in Reqs :
        req[r].err = "load"
          => /\ req[r].pc = "done"
             /\ req[r].outcome = "server_error"
             /\ req[r].model = None
             /\ req[r].embedding = <<>>
             /\ req[r].generated_ids = <<>>
             /\ req[r].answer = <<>>

\* C4 witness: an /embed and a /query request, each ended by a failed load.
C4_Witness ==
    \E r, q \in Reqs :
        /\ req[r].kind = "embed" /\ req[r].err = "load"
        /\ req[q].kind = "query" /\ req[q].err = "load"
        /\ req[r].outcome = "server_error" /\ req[q].outcome = "server_error"

\* C5: nothing guards the assignment: every handle a request constructs is
\* assigned, and the slot holds the handle assigned last (a second assignment
\* overwrites the first).
C5_LastStoreWins ==
    /\ embed_model = IF embedStores = <<>> THEN None ELSE Last(embedStores)
    /\ llm_model = IF llmStores = <<>> THEN None ELSE Last(llmStores)
    /\ \A r \in Reqs :
         req[r].built # None
           => \E i \in 1..Len(Stores(req[r].kind)) :
                Stores(req[r].kind)[i] = req[r].built

\* C5 witness: two requests each constructed the embedding model, and the slot
\* holds the second handle, not the first.
C5_Witness ==
    \E r, q \in Reqs :
        /\ r # q
        /\ req[r].kind = "embed" /\ req[q].kind = "embed"
        /\ req[r].built # None /\ req[q].built # None
        /\ req[r].built # req[q].built
        /\ Len(embedStores) = 2
        /\ embed_model = embedStores[2]
        /\ embed_model # embedStores[1]

NoOuterSpace(s) == s = <<>> \/ (Head(s) # " " /\ Last(s) # " ")

\* C6 (as stated): the answer of a served /query holds no leading or trailing
\* whitespace and never includes the rendered prompt text.
C6_AnswerNeverIncludesPrompt ==
    \A r \in Reqs :
        Served(r, "query")
          => /\ NoOuterSpace(req[r].answer)
             /\ ~Contains(req[r].answer,
                          ChatTemplate(req[r].system, req[r].user))

\* C6 (amended): the answer of a served /query is the stripped decoding of
\* exactly the tokens generate produced after the prompt ids; the echoed
\* prompt ids contribute nothing, so the answer includes the rendered prompt
\* text only when the newly generated tokens decode to it; and the answer has
\* no leading or trailing whitespace.
C6_AnswerFromNewTokensOnly ==
    \A r \in Reqs :
        Served(r, "query")
          => /\ req[r].generated_ids = req[r].input_ids \o req[r].sampled
             /\ req[r].answer = Strip(Decode(req[r].sampled))
             /\ NoOuterSpace(req[r].answer)
             /\ Contains(req[r].answer,
                         ChatTemplate(req[r].system, req[r].user))
                  => Contains(Decode(req[r].sampled),
                              ChatTemplate(req[r].system, req[r].user))

\* C6 witness: a served /query with a non-empty system and user prompt whose
\* new tokens start with whitespace and whose answer is not empty.
C6_Witness ==
    \E r \in Reqs :
        /\ Served(r, "query")
        /\ req[r].system = <<"a">> /\ req[r].user = <<"a">>
        /\ Len(req[r].sampled) >= 2
        /\ req[r].sampled[1] = "sp"
        /\ req[r].answer = <<"a">>

C8_MissingTextRejected ==
    \A r \in Reqs :
        (req[r].kind = "embed" /\ "text" \notin req[r].has)
          => /\ req[r].pc = "done"
             /\ req[r].outcome = "client_error"
             /\ req[r].err = "none"
             /\ req[r].model = None
             /\ req[r].built = None
             /\ req[r].embedding = <<>>

\* C8 witness: such a request rejected, with the embedding model never
\* constructed.
C8_Witness ==
    \E r \in Reqs :
        /\ req[r].kind = "embed"
        /\ "text" \notin req[r].has
        /\ req[r].outcome = "client_error"
        /\ embedStores = <<>>
        /\ \A q \in Reqs : req[q].pc # "idle"

\* C9: a step that serves /health changes neither slot, constructs nothing
\* and leaves every other request as it was.
C9_HealthHasNoSideEffects ==
    [][\A r \in Reqs :
         (req[r].pc = "idle" /\ req'[r].kind = "health")
           => /\ embed_model' = embed_model
              /\ llm_model' = llm_model
              /\ embedStores' = embedStores
              /\ llmStores' = llmStores
              /\ \A q \in Reqs \ {r} : req'[q] = req[q]]_vars

\* C9 witness: a health check served with both slots still empty while
\* another request is in the middle of a construction.
C9_Witness ==
    \E r, q \in Reqs :
        /\ Served(r, "health")
        /\ q < r
        /\ req[q].pc = "construct"
        /\ embed_model = None /\ llm_model = None

\* C10: a slot that holds a handle holds one after every step, and a request
\* past its accessor call holds a handle.
C10_SlotsMonotonic ==
    [][/\ embed_model # None => embed_model' # None
       /\ llm_model # None => llm_model' # None
       /\ \A r \in Reqs :
            req'[r].pc = "infer" => req'[r].model # None]_vars

\* C10 witness: a construction raised in a request that had raced on first
\* use, at a moment when the slot already held another request's handle, and
\* the slot holds it still.
C10_Witness ==
    \E r, q \in Reqs :
        /\ r # q
        /\ req[r].err = "load"
        /\ req[r].slotAtRaise # None
        /\ req[q].built = req[r].slotAtRaise
        /\ Slot(req[r].kind) = req[r].slotAtRaise

====
